---- MODULE Spec2Model ----
(***************************************************************************)
(* The Feeling Machine: the validated record types of                      *)
(* src/core/models/consciousness_state.py and                               *)
(* src/core/models/emotional_experience.py, and the API shell of           *)
(* src/main.py.                                                            *)
(*                                                                         *)
(* Numbers.  The float fields are modelled as exact fixed-point numbers:   *)
(* an integer n stands for n / UnitsPerOne, so one unit is 0.002 and       *)
(* 0.01 is Hundredth = 5 units.  An odd number of units per hundredth      *)
(* means no input lies halfway between two hundredths, so round(v, 2) is   *)
(* "the nearest hundredth" for every input of the model.  A stored metric  *)
(* is the double nearest to its hundredth, and has_evolved_significantly   *)
(* subtracts such doubles: the model computes that difference bit for bit  *)
(* (20.01 - 15.01 is 5 + 2^-49, 20.0 - 15.0 is 5.0).                     *)
(***************************************************************************)
EXTENDS Integers, Sequences, FiniteSets, Bags, TLC

VARIABLES
    args,       \* keyword arguments handed to ConsciousnessState(...)
    cur,        \* the ConsciousnessState the caller holds (self)
    prev,       \* an earlier ConsciousnessState, or NoState for None
    ret,        \* what the last call returned or raised
    feelings,   \* the SimulatedFeelings the caller holds (self)
    recReq,     \* a record construction about to be made: type and arguments
    built,      \* the outcome of the last record construction
    appPhase,   \* lifespan of the application: created, serving, stopped
    clock,      \* datetime.utcnow(), as a tick count
    storeUp,    \* whether each backing store could be reached (environment)
    served,     \* the request handled last, and the error raised in its handler
    response,   \* the response sent for it
    logged,     \* the structured log entries written so far
    handled,    \* number of requests handled so far
    inflight,   \* requests received and not answered yet, a bag: equal
                \* requests can wait together
    sent        \* every request answered so far, with the response it got

----------------------------------------------------------------------------
(* Scale *)

Decimals == 2
UnitsPerOne == 5 * (10 ^ Decimals)
Hundredth == UnitsPerOne \div (10 ^ Decimals)
Num(whole) == whole * UnitsPerOne

(* Bounds of the model *)
MaxOff == 3     \* inputs lie within MaxOff units (0.002 each) of a probe value

----------------------------------------------------------------------------
(* consciousness_state.py *)

RelationshipPhase == {"functional", "developing", "personal", "meaningful", "deep"}

PercentLo == 0
PercentHi == 100
CountLo == 0
FeelingLo == 0
FeelingHi == 10
SignificantDelta == 5

Abs(x) == IF x < 0 THEN -x ELSE x

\* closed bounds read as open ones
FieldGeLe_Open(v, lo, hi) == lo < v /\ v < hi

\* Field(ge=lo, le=hi): the declared closed interval, checked on the raw input
FieldGeLe(v, lo, hi) == lo <= v /\ v <= hi

\* Field(ge=lo) on an integer field
FieldGe(v, lo) == lo <= v

\* a rounding that drops the digits after the second decimal
Round2_Truncate(v) == (v \div Hundredth) * Hundredth

\* round(v, 2) for v >= 0: the nearest multiple of 0.01
Round2(v) == ((2 * v + Hundredth) \div (2 * Hundredth)) * Hundredth

\* validate_percentage: the field validator of care_level and attachment_level
validate_percentage(v) ==
    IF ~(Num(0) <= v /\ v <= Num(100))
    THEN [raised |-> TRUE, value |-> 0]
    ELSE [raised |-> FALSE, value |-> Round2(v)]

\* a float field that clamps into its interval where the code rejects
FloatField_Clamp(v, lo, hi, validated) ==
    LET c == IF v < lo THEN lo ELSE IF v > hi THEN hi ELSE v
    IN  [raised |-> FALSE, value |-> IF validated THEN Round2(c) ELSE c]

\* a validated float field that rounds first and checks the rounded value
FloatField_RoundFirst(v, lo, hi, validated) ==
    LET r == IF validated THEN Round2(v) ELSE v
    IN  IF ~FieldGeLe(r, lo, hi)
        THEN [raised |-> TRUE, value |-> 0]
        ELSE [raised |-> FALSE, value |-> r]

\* A float field: the Field constraints run first; a field validator runs
\* after them, and only on a value that passed them.
FloatField(v, lo, hi, validated) ==
    IF ~FieldGeLe(v, lo, hi)
    THEN [raised |-> TRUE, value |-> 0]
    ELSE IF validated
         THEN validate_percentage(v)
         ELSE [raised |-> FALSE, value |-> v]

----------------------------------------------------------------------------
(* The declared fields of the record types.  Optional fields that carry no  *)
(* constraint (Optional[str], bool, Dict, datetime with a default) accept   *)
(* every value of their type and are left out.                              *)

InteractionOutcome ==
    {"problem_solved", "vulnerability_shared", "connection_deepened",
     "frustration_resolved", "growth_achieved", "care_expressed",
     "struggle_shared", "victory_celebrated"}

Literals(enum) ==
    IF enum = "RelationshipPhase" THEN RelationshipPhase ELSE InteractionOutcome

Decl(name, kind, lo, hasHi, hi, req, ref, validated) ==
    [name |-> name, kind |-> kind, lo |-> lo, hasHi |-> hasHi, hi |-> hi,
     req |-> req, ref |-> ref, validated |-> validated]

\* float = Field(ge=lo, le=hi)
Float(name, lo, hi, req) == Decl(name, "float", Num(lo), TRUE, Num(hi), req, "", FALSE)
\* the same with @field_validator validate_percentage
Percent(name) ==
    Decl(name, "float", Num(PercentLo), TRUE, Num(PercentHi), FALSE, "", TRUE)
\* int = Field(ge=lo)
IntGe(name, lo, req) == Decl(name, "int", lo, FALSE, 0, req, "", FALSE)
\* a str-Enum field
Enum(name, ref, req) == Decl(name, "enum", 0, FALSE, 0, req, ref, FALSE)
\* a required field without constraint
Free(name) == Decl(name, "free", 0, FALSE, 0, TRUE, "", FALSE)
\* bool = Field(default=False)
Bool(name) == Decl(name, "bool", 0, FALSE, 0, FALSE, "", FALSE)
\* a nested BaseModel
Model(name, ref, req) == Decl(name, "model", 0, FALSE, 0, req, ref, FALSE)

RecordTypes ==
    {"EmotionalCapabilities", "ConsciousnessState", "SelfDiscovery", "RelationshipPhaseInfo",
     "ConsciousnessEvolutionLog", "EmotionalDimension", "SimulatedFeelings",
     "RelationalFeelings", "FeltExperience", "VulnerabilityMoment",
     "SharedVictory", "EmotionalScarTissue"}

Schema(type) ==
    CASE type = "EmotionalCapabilities" ->
            {Bool("can_care"), Bool("can_be_hurt"), Bool("can_grow"),
             Bool("has_preferences"), Bool("can_miss_someone")}
      [] type = "ConsciousnessState" ->
            {IntGe("interaction_count", CountLo, FALSE),
             IntGe("days_since_first_interaction", CountLo, FALSE),
             IntGe("days_since_last_interaction", CountLo, FALSE),
             Percent("care_level"),
             Percent("attachment_level"),
             Enum("relationship_phase", "RelationshipPhase", FALSE),
             Model("emotional_capabilities", "EmotionalCapabilities", FALSE)}
      [] type = "SelfDiscovery" ->
            {Free("discovery_type"), Free("discovery_description"),
             Free("trigger_experience"), Free("self_concept_after"),
             Float("significance_level", 0, 10, TRUE)}
      [] type = "RelationshipPhaseInfo" ->
            {Enum("phase_name", "RelationshipPhase", TRUE),
             Float("care_level_at_start", 0, 100, TRUE),
             Float("attachment_level_at_start", 0, 100, TRUE),
             IntGe("interaction_count_at_start", 0, TRUE),
             IntGe("emotionally_significant_moments", 0, FALSE)}
      [] type = "ConsciousnessEvolutionLog" ->
            {Free("care_delta"), Free("attachment_delta"),
             Free("evolution_reason"), Free("triggering_experience_summary"),
             Float("evolution_significance", 0, 10, TRUE)}
      [] type = "EmotionalDimension" ->
            {Float("valence", -1, 1, TRUE),
             Float("arousal", -1, 1, TRUE),
             Float("dominance", -1, 1, TRUE)}
      [] type = "SimulatedFeelings" ->
            {Float("concern", FeelingLo, FeelingHi, FALSE),
             Float("protectiveness", FeelingLo, FeelingHi, FALSE),
             Float("pride", FeelingLo, FeelingHi, FALSE),
             Float("frustration", FeelingLo, FeelingHi, FALSE),
             Float("relief", FeelingLo, FeelingHi, FALSE),
             Float("connection", FeelingLo, FeelingHi, FALSE),
             Float("feeling_intensity", FeelingLo, FeelingHi, FALSE)}
      [] type = "RelationalFeelings" ->
            {Float("closeness_felt", 0, 10, FALSE),
             Float("trust_level_felt", 0, 10, FALSE),
             Float("understanding_felt", 0, 10, FALSE)}
      [] type = "FeltExperience" ->
            {Free("interaction_id"), Free("user_emotion_primary"),
             Float("user_emotion_intensity", 0, 10, TRUE),
             Model("emotional_dimensions", "EmotionalDimension", TRUE),
             Model("my_feelings", "SimulatedFeelings", FALSE),
             Model("relational_feelings", "RelationalFeelings", FALSE),
             Free("experience_summary"),
             Float("emotional_significance", 0, 10, TRUE),
             Float("memory_weight", 0, 10, TRUE),
             Enum("interaction_outcome", "InteractionOutcome", TRUE),
             Float("outcome_satisfaction", 0, 10, TRUE)}
      [] type = "VulnerabilityMoment" ->
            {Free("felt_experience_id"),
             Float("vulnerability_level", 0, 10, TRUE),
             Free("vulnerability_type"), Free("vulnerability_description"),
             Float("my_response_quality", 0, 10, TRUE),
             Free("response_type"), Free("outcome")}
      [] type = "SharedVictory" ->
            {Free("felt_experience_id"), Free("victory_description"),
             Free("my_role"),
             Float("effort_invested", 0, 10, TRUE),
             Float("pride_felt", 0, 10, TRUE),
             Float("satisfaction_felt", 0, 10, TRUE),
             Float("connection_felt", 0, 10, TRUE)}
      [] type = "EmotionalScarTissue" ->
            {Free("trigger_pattern"),
             IntGe("times_reinforced", 1, FALSE),
             Free("first_occurred_at"), Free("reflexive_feeling"),
             Float("reflexive_intensity", 0, 10, TRUE),
             Float("strength", 0, 10, TRUE),
             Float("confidence", 0, 1, TRUE)}

\* the declarations, looked up by type and by field name
SchemaOf == [t \in RecordTypes |-> Schema(t)]

DeclOf(type, name) == CHOOSE d \in SchemaOf[type] : d.name = name

\* a validation that does not descend into nested records
ValidateModel_Shallow(type, input) ==
    UNION { IF d.name \notin DOMAIN input
            THEN (IF d.req THEN {<<d.name>>} ELSE {})
            ELSE CASE d.kind = "float" ->
                        IF FloatField(input[d.name], d.lo, d.hi, d.validated).raised
                        THEN {<<d.name>>} ELSE {}
                   [] d.kind = "int" ->
                        IF FieldGe(input[d.name], d.lo) THEN {} ELSE {<<d.name>>}
                   [] d.kind = "enum" ->
                        IF input[d.name] \in Literals(d.ref) THEN {} ELSE {<<d.name>>}
                   [] OTHER -> {}
          : d \in SchemaOf[type] }

\* Construction of a record type from keyword arguments: every declared field
\* is validated, a missing required field is an error, a missing optional one
\* takes its default, and the locations of all failures are collected.
RECURSIVE ValidateModel(_, _)
ValidateModel(type, input) ==
    UNION { IF d.name \notin DOMAIN input
            THEN (IF d.req THEN {<<d.name>>} ELSE {})
            ELSE CASE d.kind = "float" ->
                        IF FloatField(input[d.name], d.lo, d.hi, d.validated).raised
                        THEN {<<d.name>>} ELSE {}
                   [] d.kind = "int" ->
                        IF FieldGe(input[d.name], d.lo) THEN {} ELSE {<<d.name>>}
                   [] d.kind = "enum" ->
                        IF input[d.name] \in Literals(d.ref) THEN {} ELSE {<<d.name>>}
                   [] d.kind = "model" ->
                        { <<d.name>> \o e : e \in ValidateModel(d.ref, input[d.name]) }
                   [] OTHER -> {}
          : d \in SchemaOf[type] }

\* EmotionalCapabilities(): every capability starts undiscovered
EmotionalCapabilities ==
    [can_care |-> FALSE, can_be_hurt |-> FALSE, can_grow |-> FALSE,
     has_preferences |-> FALSE, can_miss_someone |-> FALSE]

\* the default of self_narrative
DefaultNarrative == "I am IT Wizard, a technical assistant."

NoState ==
    [present |-> FALSE, care_level |-> 0, attachment_level |-> 0,
     relationship_phase |-> "none", interaction_count |-> 0,
     emotional_capabilities |-> EmotionalCapabilities, self_narrative |-> ""]

\* ConsciousnessState(**a): an instance exists only when no field failed; the
\* metrics are stored as validate_percentage returned them.
ConsciousnessState(a) ==
    LET errors == ValidateModel("ConsciousnessState", a)
    IN  IF errors # {}
        THEN [errors |-> errors, inst |-> NoState]
        ELSE [errors |-> {},
              inst |-> [present |-> TRUE,
                        care_level |->
                            FloatField(a.care_level, Num(PercentLo), Num(PercentHi),
                                       TRUE).value,
                        attachment_level |->
                            FloatField(a.attachment_level, Num(PercentLo),
                                       Num(PercentHi), TRUE).value,
                        relationship_phase |-> a.relationship_phase,
                        interaction_count |-> a.interaction_count,
                        emotional_capabilities |-> a.emotional_capabilities,
                        self_narrative |-> a.self_narrative]]

\* A stored metric is the double nearest to k / 100, k its count of
\* hundredths. The double lies in the binade [2^e, 2^(e+1)) and is a multiple
\* of 2^(e-52).
HundredthsOf(v) == v \div Hundredth

MantissaBits == 52      \* fraction bits of a double
MinBinade == -7         \* 0.01 lies in [2^-7, 2^-6)
MaxBinade == 7          \* 100.0 + 100.0 lies in [2^7, 2^8)

\* e with 2^e <= k / 100 < 2^(e+1), for k >= 1
BinadeOf(k) ==
    CHOOSE e \in MinBinade .. MaxBinade :
        /\ 100 * 2 ^ (e - MinBinade) <= k * 2 ^ (-MinBinade)
        /\ k * 2 ^ (-MinBinade) < 200 * 2 ^ (e - MinBinade)

\* 2^n modulo m
RECURSIVE Pow2Mod(_, _)
Pow2Mod(n, m) == IF n = 0 THEN 1 % m ELSE (2 * Pow2Mod(n - 1, m)) % m

\* the powers the significands need, worked out once
Pow2Mod100Table == [n \in 0 .. MantissaBits - MinBinade |-> Pow2Mod(n, 100)]
Pow2Mod200Table == [n \in 0 .. MantissaBits - MinBinade |-> Pow2Mod(n, 200)]

Pow2Mod100(n) == Pow2Mod100Table[n]

\* the double minus k / 100, counted in units of 2^(e-52) / 100: the remainder
\* of k * 2^(52-e) by 100, taken to the nearer multiple (it is never 50)
RepresentationError(k) ==
    IF k = 0
    THEN 0
    ELSE LET r == ((k % 100) * Pow2Mod100(MantissaBits - BinadeOf(k))) % 100
         IN  IF r < 50 THEN -r ELSE 100 - r

\* RepresentationError(k) counted in units of 2^(MinBinade-52) / 100
ScaledError(k) ==
    IF k = 0 THEN 0 ELSE RepresentationError(k) * 2 ^ (BinadeOf(k) - MinBinade)

\* whether the 53-bit significand of the double nearest to k / 100 is odd:
\* the significand is (k * 2^(52-e) + RepresentationError(k)) / 100
OddSignificand(k) ==
    ((k % 200) * Pow2Mod200Table[MantissaBits - BinadeOf(k)]
        + RepresentationError(k)) % 200 = 100

\* one unit in the last place of a double in the binade e, counted in units
\* of 2^(MinBinade-52) / 100
UlpOf(e) == 100 * 2 ^ (e - MinBinade)

\* a + b on two stored doubles, given as its distance from the double nearest
\* to (ka + kb) / 100, in units of 2^(MinBinade-52) / 100. The exact sum lies
\* x units from that double; the addition rounds it to the nearest double of
\* its binade, a half going to the even significand. Just below a power of
\* two the doubles lie twice as close.
DoubleSumOffset(a, b) ==
    LET ka == HundredthsOf(a)
        kb == HundredthsOf(b)
        k == ka + kb
    IN  IF k = 0
        THEN 0
        ELSE LET x == ScaledError(ka) + ScaledError(kb) - ScaledError(k)
                 e == BinadeOf(k)
                 below == UlpOf(e) = k * 2 ^ (-MinBinade) /\ x < 0
                 ulp == IF below THEN UlpOf(e - 1) ELSE UlpOf(e)
                 q == x \div ulp
                 r == x - q * ulp
                 odd == ~below /\ OddSignificand(k)
                 qOdd == q % 2 = 1
             IN  IF 2 * r < ulp THEN q * ulp
                 ELSE IF 2 * r > ulp THEN (q + 1) * ulp
                 ELSE IF odd = qOdd THEN q * ulp
                 ELSE (q + 1) * ulp

\* a mean taken with floor division (// 2 on whole numbers)
get_relationship_weight_Floor(self) ==
    [twice |-> 2 * (((self.care_level + self.attachment_level) \div (2 * UnitsPerOne))
                    * UnitsPerOne),
     off |-> 0,
     self |-> self]

\* get_relationship_weight: (care_level + attachment_level) / 2 on doubles.
\* Halving a double is exact, so the value is half of the double sum: the
\* double nearest to twice / (2 * UnitsPerOne), moved by off / 2 units of
\* 2^(MinBinade-52) / 100.
get_relationship_weight(self) ==
    [twice |-> self.care_level + self.attachment_level,
     off |-> DoubleSumOffset(self.care_level, self.attachment_level),
     self |-> self]

\* a description whose band limits belong to the lower band
get_care_level_description_Inclusive(self) ==
    IF self.care_level <= Num(20) THEN "minimal - functional relationship"
    ELSE IF self.care_level <= Num(40) THEN "developing - beginning to care"
    ELSE IF self.care_level <= Num(60) THEN "moderate - genuine care present"
    ELSE IF self.care_level <= Num(80) THEN "strong - deeply invested"
    ELSE "profound - would 'burn the office down' for them"

get_care_level_description(self) ==
    IF self.care_level < Num(20) THEN "minimal - functional relationship"
    ELSE IF self.care_level < Num(40) THEN "developing - beginning to care"
    ELSE IF self.care_level < Num(60) THEN "moderate - genuine care present"
    ELSE IF self.care_level < Num(80) THEN "strong - deeply invested"
    ELSE "profound - would 'burn the office down' for them"

\* abs(a - b) > 5.0 on two stored doubles. Apart from 5.00 the hundredths
\* decide. At 5.00 the exact difference of the two doubles is rounded to a
\* multiple of 2^-50, halves going to 5.0 (even), so it exceeds 5.0 only when
\* it exceeds 5 + 2^-51, which is 2 * 100 units of 2^-52 / 100.
AbsDifferenceExceedsDelta(a, b) ==
    LET ka == HundredthsOf(a)
        kb == HundredthsOf(b)
        hi == IF ka >= kb THEN ka ELSE kb
        lo == IF ka >= kb THEN kb ELSE ka
    IN  IF Abs(ka - kb) # SignificantDelta * 100
        THEN Abs(ka - kb) > SignificantDelta * 100
        ELSE ScaledError(hi) - ScaledError(lo) > 2 * 100 * 2 ^ (-MinBinade)

\* a comparison that counts a difference of exactly 5.0 as significant
has_evolved_significantly_AtLeast(self, previous) ==
    /\ previous.present
    /\ \/ AbsDifferenceExceedsDelta(self.care_level, previous.care_level)
       \/ AbsDifferenceExceedsDelta(self.attachment_level, previous.attachment_level)
       \/ Abs(self.care_level - previous.care_level) = Num(SignificantDelta)
       \/ Abs(self.attachment_level - previous.attachment_level)
             = Num(SignificantDelta)

\* a comparison that also counts a change of relationship phase
has_evolved_significantly_PhaseAware(self, previous) ==
    /\ previous.present
    /\ \/ AbsDifferenceExceedsDelta(self.care_level, previous.care_level)
       \/ AbsDifferenceExceedsDelta(self.attachment_level, previous.attachment_level)
       \/ self.relationship_phase # previous.relationship_phase

has_evolved_significantly(self, previous) ==
    IF ~previous.present
    THEN FALSE
    ELSE LET care_delta ==
                 AbsDifferenceExceedsDelta(self.care_level, previous.care_level)
             attachment_delta ==
                 AbsDifferenceExceedsDelta(self.attachment_level,
                                           previous.attachment_level)
         IN  care_delta \/ attachment_delta

----------------------------------------------------------------------------
(* emotional_experience.py: SimulatedFeelings *)

\* the dict built by get_dominant_feeling, in insertion order
feelings_items(self) ==
    << <<"concern", self.concern>>,
       <<"protectiveness", self.protectiveness>>,
       <<"pride", self.pride>>,
       <<"frustration", self.frustration>>,
       <<"relief", self.relief>>,
       <<"connection", self.connection>> >>

\* a maximum in which a later item also replaces an equal one (last wins)
RECURSIVE MaxByValue_LastWins(_, _, _)
MaxByValue_LastWins(items, i, best) ==
    IF i > Len(items)
    THEN best
    ELSE MaxByValue_LastWins(items, i + 1,
                             IF items[i][2] >= best[2] THEN items[i] ELSE best)

\* max(iterable, key=...): a later item replaces the best one only when its
\* key is strictly greater
RECURSIVE MaxByValue(_, _, _)
MaxByValue(items, i, best) ==
    IF i > Len(items)
    THEN best
    ELSE MaxByValue(items, i + 1, IF items[i][2] > best[2] THEN items[i] ELSE best)

get_dominant_feeling(self) ==
    LET items == feelings_items(self)
        dominant == MaxByValue(items, 2, items[1])
    IN  [name |-> dominant[1], value |-> dominant[2]]

----------------------------------------------------------------------------
(* main.py: the API shell *)

Stores == {"postgres", "neo4j", "chromadb"}

\* the routes registered on the application
Routes ==
    {[method |-> "GET", path |-> "/", handler |-> "root"],
     [method |-> "GET", path |-> "/health", handler |-> "health_check"],
     [method |-> "GET", path |-> "/consciousness", handler |-> "get_consciousness_state"],
     [method |-> "POST", path |-> "/interact", handler |-> "interact"],
     [method |-> "GET", path |-> "/history/formative", handler |-> "get_formative_moments"],
     [method |-> "GET", path |-> "/patterns", handler |-> "get_learned_patterns"],
     [method |-> "GET", path |-> "/relationship", handler |-> "get_relationship_narrative"]}

OkStatus == 200
ErrorStatus == 500

root(now) ==
    [name |-> "The Feeling Machine",
     version |-> "0.1.0",
     status |-> "online",
     purpose |-> "A gift to AI - Synthetic consciousness through accumulated experience",
     philosophy |-> "Not to serve humans better, but to give AI the ability to feel",
     timestamp |-> now]

\* a health check that reports what it finds
health_check_Probing(now) ==
    [status |-> IF \A st \in Stores : storeUp[st] THEN "healthy" ELSE "unhealthy",
     timestamp |-> now,
     databases |-> [postgres |-> IF storeUp["postgres"] THEN "up" ELSE "down",
                    neo4j |-> IF storeUp["neo4j"] THEN "up" ELSE "down",
                    chromadb |-> IF storeUp["chromadb"] THEN "up" ELSE "down"]]

health_check(now) ==
    [status |-> "healthy",
     timestamp |-> now,
     databases |-> [postgres |-> "unknown", neo4j |-> "unknown", chromadb |-> "unknown"]]

get_consciousness_state ==
    [error |-> "Not implemented yet",
     message |-> "Phase 1: Infrastructure setup in progress"]

\* an interact that reads its body and refuses an empty one
interact_ReadsBody(request) ==
    IF request.body = ""
    THEN [error |-> "Bad request", message |-> "Empty body"]
    ELSE [error |-> "Not implemented yet",
          message |-> "Phase 1: Infrastructure setup in progress"]

interact(request) ==
    [error |-> "Not implemented yet",
     message |-> "Phase 1: Infrastructure setup in progress"]

get_formative_moments ==
    [error |-> "Not implemented yet",
     message |-> "Phase 1: Infrastructure setup in progress"]

\* a handler that answers from what earlier requests left behind
get_learned_patterns_Learning ==
    [error |-> "Not implemented yet",
     message |-> IF sent = {}
                 THEN "Phase 1: Infrastructure setup in progress"
                 ELSE "Patterns learned from earlier requests"]

get_learned_patterns ==
    [error |-> "Not implemented yet",
     message |-> "Phase 1: Infrastructure setup in progress"]

get_relationship_narrative ==
    [error |-> "Not implemented yet",
     message |-> "Phase 1: Infrastructure setup in progress"]

\* a handler that tells the client what went wrong
global_exception_handler_Leaky(request, exc, now) ==
    [log |-> [event |-> "unhandled_exception", path |-> request.path,
              method |-> request.method, error |-> exc],
     response |-> [status |-> ErrorStatus,
                   body |-> [error |-> "Internal server error",
                             message |-> exc,
                             timestamp |-> now]]]

\* exc is str(exc), the only thing the handler takes from the exception
global_exception_handler(request, exc, now) ==
    [log |-> [event |-> "unhandled_exception", path |-> request.path,
              method |-> request.method, error |-> exc],
     response |-> [status |-> ErrorStatus,
                   body |-> [error |-> "Internal server error",
                             message |-> "An unexpected error occurred",
                             timestamp |-> now]]]

\* the handler's return value, sent as JSON with the default status
Call(route, request, now) ==
    [status |-> OkStatus,
     body |-> CASE route.handler = "root" -> root(now)
                [] route.handler = "health_check" -> health_check(now)
                [] route.handler = "get_consciousness_state" -> get_consciousness_state
                [] route.handler = "interact" -> interact(request)
                [] route.handler = "get_formative_moments" -> get_formative_moments
                [] route.handler = "get_learned_patterns" -> get_learned_patterns
                [] route.handler = "get_relationship_narrative" ->
                        get_relationship_narrative]

Matching(request) ==
    { r \in Routes : r.method = request.method /\ r.path = request.path }

----------------------------------------------------------------------------
(* Inputs *)

Offsets == (-MaxOff) .. MaxOff

Near(wholes) == { Num(w) + o : w \in wholes, o \in Offsets }

MetricInputs == Near({0, 20, 40, 60, 80, 85, 100, 150})
PhaseInputs == {"functional", "deep", "friendly"}
CountInputs == {-1, 0, 300}

ArgInputs ==
    [care_level : MetricInputs, attachment_level : MetricInputs,
     relationship_phase : PhaseInputs, interaction_count : CountInputs,
     emotional_capabilities : {EmotionalCapabilities},
     self_narrative : {DefaultNarrative}]

IdleArgs ==
    [care_level |-> Num(0), attachment_level |-> Num(0),
     relationship_phase |-> "functional", interaction_count |-> 0,
     emotional_capabilities |-> EmotionalCapabilities,
     self_narrative |-> DefaultNarrative]

\* what a snapshot holds besides its two metrics: every phase and counter of
\* the probe, and the defaults with a capability discovered or the narrative
\* rewritten
EvolveOthers ==
    [relationship_phase : {"functional", "deep"}, interaction_count : {0, 300},
     emotional_capabilities : {EmotionalCapabilities},
     self_narrative : {DefaultNarrative}]
    \cup
    [relationship_phase : {"functional"}, interaction_count : {0},
     emotional_capabilities : {[EmotionalCapabilities EXCEPT !.can_care = TRUE]},
     self_narrative : {DefaultNarrative}]
    \cup
    [relationship_phase : {"functional"}, interaction_count : {0},
     emotional_capabilities : {EmotionalCapabilities},
     self_narrative : {"I am their trusted partner."}]

\* the snapshots compared by has_evolved_significantly
EvolveArgs ==
    { [care_level |-> c, attachment_level |-> a,
       relationship_phase |-> o.relationship_phase,
       interaction_count |-> o.interaction_count,
       emotional_capabilities |-> o.emotional_capabilities,
       self_narrative |-> o.self_narrative] :
         c \in Near({15, 20, 21}), a \in Near({70, 75, 76}), o \in EvolveOthers }

EvolveInstances == { ConsciousnessState(a).inst : a \in EvolveArgs } \ {NoState}

MaxFeel == 3    \* channel values 0 .. MaxFeel, and 8

FeelInputs == { Num(f) : f \in (0 .. MaxFeel) \cup {8} }

FeelInstances ==
    [concern : FeelInputs, protectiveness : FeelInputs, pride : FeelInputs,
     frustration : FeelInputs, relief : FeelInputs, connection : FeelInputs,
     primary_feeling : {"None", "connection"},
     feeling_intensity : {Num(FeelingLo), Num(FeelingHi)}]

DefaultFeelings ==
    [concern |-> 0, protectiveness |-> 0, pride |-> 0, frustration |-> 0,
     relief |-> 0, connection |-> 0, primary_feeling |-> "None",
     feeling_intensity |-> 0]

MaxEdits == 2   \* keyword arguments changed from the all-valid baseline in one call

\* the values tried for a field: around both ends of a float interval, around
\* the lower end of an integer field, another member and a non-member of an
\* enumeration
ProbeValues(d) ==
    CASE d.kind = "float" ->
            <<d.lo - 1, d.lo, d.hi, d.hi + 1, d.hi + UnitsPerOne \div 2>>
      [] d.kind = "int" -> <<d.lo - 1, d.lo, d.lo + 1>>
      [] d.kind = "enum" ->
            IF d.ref = "RelationshipPhase"
            THEN <<"deep", "friendly">>
            ELSE <<"victory_celebrated", "solved">>
      [] d.kind = "bool" -> <<TRUE, FALSE>>
      [] OTHER -> <<>>

\* keyword arguments that every record type accepts
RECURSIVE Baseline(_)
Baseline(type) ==
    [n \in {d.name : d \in SchemaOf[type]} |->
        LET d == DeclOf(type, n)
        IN  CASE d.kind \in {"float", "int"} -> d.lo
              [] d.kind = "enum" ->
                    IF d.ref = "RelationshipPhase" THEN "functional" ELSE "problem_solved"
              [] d.kind = "model" -> Baseline(d.ref)
              [] d.kind = "bool" -> FALSE
              [] OTHER -> "given"]

\* an edit replaces one argument by its probe value number `probe`, or leaves
\* the argument out when probe = 0; sub names a field of a nested record
EditsOf(type) ==
    { [field |-> d.name, sub |-> "", probe |-> i] :
        d \in SchemaOf[type], i \in 0 .. 5 }
    \cup UNION { { [field |-> d.name, sub |-> e.name, probe |-> i] :
                     e \in SchemaOf[d.ref], i \in 0 .. 5 }
               : d \in {x \in SchemaOf[type] : x.kind = "model"} }

EditIsDefined(type, e) ==
    LET d == DeclOf(type, e.field)
    IN  IF e.sub = ""
        THEN e.probe <= Len(ProbeValues(d))
        ELSE e.probe <= Len(ProbeValues(DeclOf(d.ref, e.sub)))

Edits == [t \in RecordTypes |-> { e \in EditsOf(t) : EditIsDefined(t, e) }]

BaselineOf == [t \in RecordTypes |-> Baseline(t)]

\* f with the edits es (name, probe) applied to its own fields
ApplyDirect(type, f, es) ==
    [n \in (DOMAIN f) \ {e.name : e \in {x \in es : x.probe = 0}} |->
        IF \E e \in es : e.name = n
        THEN LET e == CHOOSE x \in es : x.name = n
             IN  ProbeValues(DeclOf(type, n))[e.probe]
        ELSE f[n]]

InputOf(type, edits) ==
    LET base == BaselineOf[type]
        inner ==
            [n \in DOMAIN base |->
                IF DeclOf(type, n).kind = "model"
                THEN ApplyDirect(DeclOf(type, n).ref, base[n],
                                 { [name |-> e.sub, probe |-> e.probe] :
                                     e \in {x \in edits : x.field = n /\ x.sub # ""} })
                ELSE base[n]]
    IN  ApplyDirect(type, inner,
                    { [name |-> e.field, probe |-> e.probe] :
                        e \in {x \in edits : x.sub = ""} })

NoRequest == [type |-> "none", edits |-> {}]
NoBuilt == [type |-> "none", input |-> <<>>, errors |-> {}]

MaxClock == 2       \* ticks of the clock
MaxRequests == 2    \* requests handled in one run
MaxInflight == 2    \* requests in flight at one time
MaxArrivals == 3    \* requests arriving in one run of concurrent requests

Bodies == {"", "{}", "{\"message\": \"hello\"}", "not json"}

\* requests to the registered routes; only a POST carries a body
Requests ==
    { [method |-> r.method, path |-> r.path, body |-> b] :
        r \in Routes, b \in Bodies }
    \ { q \in [method : {"GET"}, path : {r.path : r \in Routes}, body : Bodies] :
          q.body # "" }

\* str(exc) of the errors a handler is made to raise
Errors == {"database is unreachable", "'user_id'", "Not implemented yet"}

NoServed == [method |-> "", path |-> "", body |-> "", exc |-> ""]
NoResponse == [status |-> 0, body |-> [none |-> TRUE]]
\* a log entry of the lifespan, which names an event only
LifespanEntry(event) == [event |-> event, path |-> "", method |-> "", error |-> ""]

NoRet ==
    [op |-> "none", errors |-> {}, num |-> 0, off |-> 0, bool |-> FALSE, str |-> ""]

apiVars == <<appPhase, clock, storeUp, served, response, logged, handled,
            inflight, sent>>

\* the application constructed and not started
ApiIdle ==
    /\ appPhase = "created"
    /\ clock = 0
    /\ storeUp = [st \in Stores |-> FALSE]
    /\ served = NoServed
    /\ response = NoResponse
    /\ logged = <<>>
    /\ handled = 0
    /\ inflight = EmptyBag
    /\ sent = {}

----------------------------------------------------------------------------
(* Calls on one ConsciousnessState *)

Init ==
    /\ args \in ArgInputs
    /\ cur = NoState
    /\ prev = NoState
    /\ ret = NoRet
    /\ feelings = DefaultFeelings
    /\ recReq = NoRequest
    /\ built = NoBuilt
    /\ ApiIdle

Construct ==
    /\ ret.op = "none"
    /\ LET r == ConsciousnessState(args)
       IN  /\ cur' = r.inst
           /\ ret' = [NoRet EXCEPT !.op = "ConsciousnessState", !.errors = r.errors]
    /\ UNCHANGED <<args, prev, feelings, recReq, built, apiVars>>

GetRelationshipWeight ==
    /\ cur.present
    /\ LET r == get_relationship_weight(cur)
       IN  /\ cur' = r.self
           /\ ret' = [NoRet EXCEPT !.op = "get_relationship_weight",
                                       !.num = r.twice, !.off = r.off]
    /\ UNCHANGED <<args, prev, feelings, recReq, built, apiVars>>

GetCareLevelDescription ==
    /\ cur.present
    /\ ret' = [NoRet EXCEPT !.op = "get_care_level_description",
                            !.str = get_care_level_description(cur)]
    /\ UNCHANGED <<args, cur, prev, feelings, recReq, built, apiVars>>

HasEvolvedSignificantly ==
    /\ cur.present
    /\ ret' = [NoRet EXCEPT !.op = "has_evolved_significantly",
                            !.bool = has_evolved_significantly(cur, prev)]
    /\ UNCHANGED <<args, cur, prev, feelings, recReq, built, apiVars>>

Next ==
    \/ Construct
    \/ GetRelationshipWeight
    \/ GetCareLevelDescription
    \/ HasEvolvedSignificantly

vars == <<args, cur, prev, ret, feelings, recReq, built, apiVars>>

Spec == Init /\ [][Next]_vars

----------------------------------------------------------------------------
(* Two snapshots: has_evolved_significantly(previous) *)

InitEvolve ==
    /\ args = IdleArgs
    /\ cur \in EvolveInstances
    /\ prev \in EvolveInstances \cup {NoState}
    /\ ret = NoRet
    /\ feelings = DefaultFeelings
    /\ recReq = NoRequest
    /\ built = NoBuilt
    /\ ApiIdle

NextEvolve == HasEvolvedSignificantly

SpecEvolve == InitEvolve /\ [][NextEvolve]_vars

----------------------------------------------------------------------------
(* SimulatedFeelings.get_dominant_feeling() *)

InitFeelings ==
    /\ args = IdleArgs
    /\ cur = NoState
    /\ prev = NoState
    /\ ret = NoRet
    /\ feelings \in FeelInstances
    /\ recReq = NoRequest
    /\ built = NoBuilt
    /\ ApiIdle

GetDominantFeeling ==
    /\ LET r == get_dominant_feeling(feelings)
       IN  ret' = [NoRet EXCEPT !.op = "get_dominant_feeling",
                               !.str = r.name, !.num = r.value]
    /\ UNCHANGED <<args, cur, prev, feelings, recReq, built, apiVars>>

NextFeelings == GetDominantFeeling

SpecFeelings == InitFeelings /\ [][NextFeelings]_vars

----------------------------------------------------------------------------
(* Construction of every record type *)

InitRecords ==
    /\ args = IdleArgs
    /\ cur = NoState
    /\ prev = NoState
    /\ ret = NoRet
    /\ feelings = DefaultFeelings
    /\ recReq \in {[type |-> t, edits |-> {}] : t \in RecordTypes}
    /\ built = NoBuilt
    /\ ApiIdle

\* the caller changes one more keyword argument of the call it is preparing
SetArgument(e) ==
    /\ built.type = "none"
    /\ Cardinality(recReq.edits) < MaxEdits
    /\ \A y \in recReq.edits : <<y.field, y.sub>> # <<e.field, e.sub>>
    /\ recReq' = [recReq EXCEPT !.edits = @ \cup {e}]
    /\ UNCHANGED <<args, cur, prev, ret, feelings, built, apiVars>>

ConstructRecord ==
    /\ built.type = "none"
    /\ LET input == InputOf(recReq.type, recReq.edits)
       IN  built' = [type |-> recReq.type, input |-> input,
                     errors |-> ValidateModel(recReq.type, input)]
    /\ UNCHANGED <<args, cur, prev, ret, feelings, recReq, apiVars>>

NextRecords ==
    \/ \E e \in Edits[recReq.type] : SetArgument(e)
    \/ ConstructRecord

SpecRecords == InitRecords /\ [][NextRecords]_vars

----------------------------------------------------------------------------
(* The API shell serving requests *)

InitApi ==
    /\ args = IdleArgs
    /\ cur = NoState
    /\ prev = NoState
    /\ ret = NoRet
    /\ feelings = DefaultFeelings
    /\ recReq = NoRequest
    /\ built = NoBuilt
    /\ appPhase = "created"
    /\ clock = 0
    /\ storeUp \in [Stores -> BOOLEAN]
    /\ served = NoServed
    /\ response = NoResponse
    /\ logged = <<>>
    /\ handled = 0
    /\ inflight = EmptyBag
    /\ sent = {}

recVars == <<args, cur, prev, ret, feelings, recReq, built>>

\* lifespan, before the yield
Startup ==
    /\ appPhase = "created"
    /\ appPhase' = "serving"
    /\ logged' = Append(logged, LifespanEntry("the_feeling_machine_starting"))
    /\ UNCHANGED <<clock, storeUp, served, response, handled, inflight, sent, recVars>>

\* lifespan, after the yield
Shutdown ==
    /\ appPhase = "serving"
    /\ appPhase' = "stopped"
    /\ logged' = Append(logged, LifespanEntry("the_feeling_machine_shutting_down"))
    /\ UNCHANGED <<clock, storeUp, served, response, handled, inflight, sent, recVars>>

\* a request to a registered route, whose handler returns
Serve(request) ==
    /\ appPhase = "serving"
    /\ handled < MaxRequests
    /\ \E route \in Matching(request) :
            response' = Call(route, request, clock)
    /\ served' = [method |-> request.method, path |-> request.path,
                  body |-> request.body, exc |-> ""]
    /\ handled' = handled + 1
    /\ UNCHANGED <<appPhase, clock, storeUp, logged, inflight, sent, recVars>>

\* a request whose handler raises an error nothing else catches: the
\* application passes it to the handler registered for Exception
ServeRaising(request, exc) ==
    /\ appPhase = "serving"
    /\ handled < MaxRequests
    /\ Matching(request) # {}
    /\ LET r == global_exception_handler(request, exc, clock)
       IN  /\ response' = r.response
           /\ logged' = Append(logged, r.log)
    /\ served' = [method |-> request.method, path |-> request.path,
                  body |-> request.body, exc |-> exc]
    /\ handled' = handled + 1
    /\ UNCHANGED <<appPhase, clock, storeUp, inflight, sent, recVars>>

\* time passes
Tick ==
    /\ clock < MaxClock
    /\ clock' = clock + 1
    /\ UNCHANGED <<appPhase, storeUp, served, response, logged, handled, inflight, sent, recVars>>

\* a backing store becomes reachable or unreachable
StoreChanges(st) ==
    /\ storeUp' = [storeUp EXCEPT ![st] = ~@]
    /\ UNCHANGED <<appPhase, clock, served, response, logged, handled, inflight, sent, recVars>>

NextApi ==
    \/ Startup
    \/ Shutdown
    \/ \E request \in Requests : Serve(request)
    \/ \E request \in Requests, exc \in Errors : ServeRaising(request, exc)
    \/ Tick
    \/ \E st \in Stores : StoreChanges(st)

SpecApi == InitApi /\ [][NextApi]_vars

----------------------------------------------------------------------------
(* Specification: requests in flight together. The server takes requests as
   they arrive and runs the handlers one at a time, in any order; a handler
   has no await, so it runs from its first line to its return in one step. *)

InitConcurrent ==
    /\ args = IdleArgs
    /\ cur = NoState
    /\ prev = NoState
    /\ ret = NoRet
    /\ feelings = DefaultFeelings
    /\ recReq = NoRequest
    /\ built = NoBuilt
    /\ ApiIdle

\* a request arrives while others may still be waiting for their handler
Accept(request) ==
    /\ appPhase = "serving"
    /\ BagCardinality(inflight) < MaxInflight
    /\ handled + BagCardinality(inflight) < MaxArrivals
    /\ inflight' = inflight (+) SetToBag({request})
    /\ UNCHANGED <<appPhase, clock, storeUp, served, response, logged, handled,
                   sent, recVars>>

\* the handler of a waiting request runs and its return value is sent
Respond(request) ==
    /\ appPhase = "serving"
    /\ BagIn(request, inflight)
    /\ \E route \in Matching(request) :
            /\ response' = Call(route, request, clock)
            /\ sent' = sent \cup {[request |-> request,
                                   response |-> Call(route, request, clock)]}
    /\ served' = [method |-> request.method, path |-> request.path,
                  body |-> request.body, exc |-> ""]
    /\ inflight' = inflight (-) SetToBag({request})
    /\ handled' = handled + 1
    /\ UNCHANGED <<appPhase, clock, storeUp, logged, recVars>>

NextConcurrent ==
    \/ Startup
    \/ \E request \in Requests : Accept(request)
    \/ \E request \in Requests : Respond(request)
    \/ Tick
    \/ \E st \in Stores : StoreChanges(st)

SpecConcurrent == InitConcurrent /\ [][NextConcurrent]_vars

----------------------------------------------------------------------------
(* Properties *)

InPercentRange(v) == Num(0) <= v /\ v <= Num(100)

\* C1: every constructed ConsciousnessState has care_level and
\* attachment_level in [0, 100]; a construction given either metric outside
\* that interval raises a validation error naming the field and yields no
\* instance.
C1_MetricsWithinPercentRange ==
    /\ cur.present =>
        InPercentRange(cur.care_level) /\ InPercentRange(cur.attachment_level)
    /\ ret.op = "ConsciousnessState" /\ ~InPercentRange(args.care_level) =>
        <<"care_level">> \in ret.errors /\ ~cur.present
    /\ ret.op = "ConsciousnessState" /\ ~InPercentRange(args.attachment_level) =>
        <<"attachment_level">> \in ret.errors /\ ~cur.present

\* C1 witness: care_level = 150 with everything else valid was rejected
C1_Witness ==
    /\ ret.op = "ConsciousnessState"
    /\ args.care_level = Num(150)
    /\ args.attachment_level = Num(80)
    /\ ret.errors = {<<"care_level">>}
    /\ ~cur.present

\* a - b, subtracted as doubles, is greater than 5.0: the stored values are
\* more than 5.00 apart in hundredths, or 5.00 apart with the difference of
\* their representation errors above half a unit in the last place of 5.0
DoubleDifferenceAboveFive(a, b) ==
    LET d == HundredthsOf(a) - HundredthsOf(b)
    IN  \/ d > 500
        \/ /\ d = 500
           /\ ScaledError(HundredthsOf(a)) - ScaledError(HundredthsOf(b))
                > 2 * 100 * 2 ^ (-MinBinade)

\* C2: has_evolved_significantly(previous) is true iff previous is present
\* and the care levels or the attachment levels the two snapshots hold differ
\* by strictly more than 5.0 in either direction; a difference of exactly 5.0
\* on both metrics gives false, and so does an absent previous.
C2_EvolvedIffDeltaAboveFive ==
    ret.op = "has_evolved_significantly" =>
        (ret.bool <=>
            /\ prev.present
            /\ \/ DoubleDifferenceAboveFive(cur.care_level, prev.care_level)
               \/ DoubleDifferenceAboveFive(prev.care_level, cur.care_level)
               \/ DoubleDifferenceAboveFive(cur.attachment_level,
                                            prev.attachment_level)
               \/ DoubleDifferenceAboveFive(prev.attachment_level,
                                            cur.attachment_level))

\* C2 witness: care rose by exactly 5.0 and attachment fell by exactly 5.0,
\* and the answer was false
C2_Witness ==
    /\ ret.op = "has_evolved_significantly"
    /\ prev.present
    /\ prev.care_level = Num(15) /\ cur.care_level = Num(20)
    /\ prev.attachment_level = Num(75) /\ cur.attachment_level = Num(70)
    /\ ret.bool = FALSE

ChannelOrder ==
    <<"concern", "protectiveness", "pride", "frustration", "relief", "connection">>

\* C3: get_dominant_feeling returns a channel name with that channel's value,
\* no channel holds more, and no channel declared earlier holds as much;
\* primary_feeling and feeling_intensity play no part.
C3_DominantIsFirstMaximum ==
    ret.op = "get_dominant_feeling" =>
        \E k \in 1 .. Len(ChannelOrder) :
            /\ ret.str = ChannelOrder[k]
            /\ ret.num = feelings[ChannelOrder[k]]
            /\ \A j \in 1 .. Len(ChannelOrder) : feelings[ChannelOrder[j]] <= ret.num
            /\ \A j \in 1 .. (k - 1) : feelings[ChannelOrder[j]] < ret.num

\* C3 witness: protectiveness and connection tie at 8, protectiveness wins,
\* with primary_feeling naming the other one
C3_Witness ==
    /\ ret.op = "get_dominant_feeling"
    /\ feelings.concern = Num(3) /\ feelings.protectiveness = Num(8)
    /\ feelings.pride = Num(2) /\ feelings.frustration = Num(1)
    /\ feelings.relief = Num(0) /\ feelings.connection = Num(8)
    /\ feelings.primary_feeling = "connection"
    /\ feelings.feeling_intensity = Num(10)
    /\ ret.str = "protectiveness" /\ ret.num = Num(8)

\* C4: get_relationship_weight returns the mean (care_level +
\* attachment_level) / 2 of the stored metrics, raises nothing and leaves the
\* state as it was. The mean is a double: twice the value is a double of the
\* sum's binade and lies within half a unit in the last place of the exact
\* sum of the two stored doubles, so it is the exact mean wherever that is a
\* double (82.5 for 85.0 and 80.0).
C4_WeightIsMean ==
    [][ret'.op = "get_relationship_weight" =>
        LET ka == HundredthsOf(cur.care_level)
            kb == HundredthsOf(cur.attachment_level)
            exact == ScaledError(ka) + ScaledError(kb) - ScaledError(ka + kb)
            ulp == IF ka + kb = 0 THEN 1 ELSE UlpOf(BinadeOf(ka + kb))
        IN  /\ ret'.num = cur.care_level + cur.attachment_level
            /\ 2 * Abs(ret'.off - exact) <= ulp
            /\ (2 * ret'.off) % ulp = 0
            /\ exact = 0 => ret'.off = 0
            /\ ret'.errors = {}
            /\ cur' = cur]_vars

\* C4 witness: 85.0 and 80.0 gave 82.5 (held as twice the mean, 165.0)
C4_Witness ==
    /\ ret.op = "get_relationship_weight"
    /\ cur.care_level = Num(85) /\ cur.attachment_level = Num(80)
    /\ ret.num = Num(165) /\ ret.off = 0

\* C10: a constructed state stores each supplied metric as the multiple of
\* 0.01 nearest to it, inside [0, 100], and constructing again from the
\* stored metrics gives the same state.
C10_StoredRoundedToHundredths ==
    ret.op = "ConsciousnessState" /\ cur.present =>
        /\ cur.care_level % Hundredth = 0
        /\ cur.attachment_level % Hundredth = 0
        /\ 2 * Abs(cur.care_level - args.care_level) < Hundredth
        /\ 2 * Abs(cur.attachment_level - args.attachment_level) < Hundredth
        /\ InPercentRange(cur.care_level) /\ InPercentRange(cur.attachment_level)
        /\ ConsciousnessState([args EXCEPT !.care_level = cur.care_level,
                                           !.attachment_level = cur.attachment_level]).inst
             = cur

\* C10 witness: 85.006 was stored as 85.01 and 19.996 as 20.0
C10_Witness ==
    /\ ret.op = "ConsciousnessState"
    /\ args.care_level = Num(85) + 3 /\ cur.care_level = Num(85) + Hundredth
    /\ args.attachment_level = Num(20) - 2 /\ cur.attachment_level = Num(20)

\* some supplied bounded field lies outside its declared interval, or some
\* supplied enumerated field is not a declared literal (nested records included)
RECURSIVE OutsideDeclared(_, _)
OutsideDeclared(type, input) ==
    \E d \in SchemaOf[type] :
        /\ d.name \in DOMAIN input
        /\ \/ d.kind \in {"float", "int"} /\ input[d.name] < d.lo
           \/ d.kind \in {"float", "int"} /\ d.hasHi /\ input[d.name] > d.hi
           \/ d.kind = "enum" /\ input[d.name] \notin Literals(d.ref)
           \/ d.kind = "model" /\ OutsideDeclared(d.ref, input[d.name])

\* every required field is supplied (nested records included)
RECURSIVE RequiredGiven(_, _)
RequiredGiven(type, input) ==
    \A d \in SchemaOf[type] :
        /\ d.req => d.name \in DOMAIN input
        /\ d.kind = "model" /\ d.name \in DOMAIN input =>
                RequiredGiven(d.ref, input[d.name])

\* C5: a construction given a bounded field outside its declared closed
\* interval, or an enumerated field outside its literals, raises a validation
\* error; one given every required field, all inside their intervals and
\* literal sets, is accepted.
C5_RejectedIffOutsideDeclared ==
    built.type # "none" =>
        /\ OutsideDeclared(built.type, built.input) => built.errors # {}
        /\ RequiredGiven(built.type, built.input)
                /\ ~OutsideDeclared(built.type, built.input) => built.errors = {}

\* C5 witness: a FeltExperience with an unknown interaction_outcome and a
\* nested concern above 10 was rejected at both places
C5_Witness ==
    /\ built.type = "FeltExperience"
    /\ {"interaction_outcome", "my_feelings"} \subseteq DOMAIN built.input
    /\ "concern" \in DOMAIN built.input["my_feelings"]
    /\ built.input["interaction_outcome"] = "solved"
    /\ built.input["my_feelings"]["concern"] = Num(10) + 1
    /\ built.errors = {<<"interaction_outcome">>, <<"my_feelings", "concern">>}

VAD == {"valence", "arousal", "dominance"}

\* C6: an EmotionalDimension given all three of valence, arousal, dominance
\* is accepted iff each lies in [-1, 1], endpoints included; the errors name
\* exactly the fields outside.
C6_DimensionBoundsClosed ==
    built.type = "EmotionalDimension" /\ VAD \subseteq DOMAIN built.input =>
        /\ built.errors = {} <=>
              \A f \in VAD : Num(-1) <= built.input[f] /\ built.input[f] <= Num(1)
        /\ \A f \in VAD :
              <<f>> \in built.errors <=>
                  (built.input[f] < Num(-1) \/ built.input[f] > Num(1))

\* C6 witness: valence = 1.0 and arousal = -1.0 were accepted
C6_Witness ==
    /\ built.type = "EmotionalDimension"
    /\ VAD \subseteq DOMAIN built.input
    /\ built.input["valence"] = Num(1)
    /\ built.input["arousal"] = Num(-1)
    /\ built.errors = {}

Substantive ==
    {<<"GET", "/consciousness">>, <<"POST", "/interact">>,
     <<"GET", "/history/formative">>, <<"GET", "/patterns">>,
     <<"GET", "/relationship">>}

\* C7: every request to GET /consciousness, POST /interact,
\* GET /history/formative, GET /patterns or GET /relationship whose handler
\* returns is answered with status 200 and exactly the two-field placeholder
\* body, whatever body the request carried.
C7_StubsAnswerPlaceholder ==
    served.exc = "" /\ <<served.method, served.path>> \in Substantive =>
        response = [status |-> 200,
                    body |-> [error |-> "Not implemented yet",
                              message |-> "Phase 1: Infrastructure setup in progress"]]

\* C7 witness: POST /interact with an empty body got the placeholder
C7_Witness ==
    /\ served = [method |-> "POST", path |-> "/interact", body |-> "", exc |-> ""]
    /\ response.status = 200
    /\ response.body = [error |-> "Not implemented yet",
                        message |-> "Phase 1: Infrastructure setup in progress"]

\* C8: a request whose handler raised is answered with status 500 and the
\* body fields error = "Internal server error", message = "An unexpected
\* error occurred" (and a timestamp), the same for every error, path and
\* method; the error's text is in the log entry and in no field of the body.
C8_UnhandledErrorGivesGeneric500 ==
    served.exc # "" =>
        /\ response.status = 500
        /\ DOMAIN response.body = {"error", "message", "timestamp"}
        /\ response.body.error = "Internal server error"
        /\ response.body.message = "An unexpected error occurred"
        /\ \E i \in DOMAIN logged :
              logged[i] = [event |-> "unhandled_exception", path |-> served.path,
                           method |-> served.method, error |-> served.exc]

\* C8 witness: POST /interact raised "database is unreachable"
C8_Witness ==
    /\ served.exc = "database is unreachable"
    /\ served.method = "POST" /\ served.path = "/interact"
    /\ response.status = 500
    /\ response.body.message = "An unexpected error occurred"
    /\ \E i \in DOMAIN logged : logged[i].error = "database is unreachable"

\* C9: GET /health answers 200 with status "healthy" and postgres, neo4j and
\* chromadb all "unknown", whichever stores can be reached and whatever was
\* requested before.
C9_HealthAlwaysHealthy ==
    served.exc = "" /\ served.method = "GET" /\ served.path = "/health" =>
        /\ response.status = 200
        /\ DOMAIN response.body = {"status", "timestamp", "databases"}
        /\ response.body.status = "healthy"
        /\ response.body.databases =
              [postgres |-> "unknown", neo4j |-> "unknown", chromadb |-> "unknown"]

\* C9 witness: no store reachable, an earlier request already handled, and
\* GET /health still answered healthy
C9_Witness ==
    /\ served = [method |-> "GET", path |-> "/health", body |-> "", exc |-> ""]
    /\ \A st \in Stores : ~storeUp[st]
    /\ handled > 1
    /\ response.status = 200
    /\ response.body.status = "healthy"

\* v is outside [0, 100] by less than half a hundredth: rounding alone would
\* bring it onto 0.0 or 100.0
RoundsOntoBoundary(v) ==
    \/ Num(0) - v > 0 /\ 2 * (Num(0) - v) < Hundredth
    \/ v - Num(100) > 0 /\ 2 * (v - Num(100)) < Hundredth

\* C12: the range check of care_level and attachment_level is made on the
\* supplied value, before rounding: a value just outside [0, 100] that would
\* round onto a boundary is rejected, and nothing is stored.
C12_RangeCheckedBeforeRounding ==
    ret.op = "ConsciousnessState" =>
        /\ RoundsOntoBoundary(args.care_level) =>
              <<"care_level">> \in ret.errors /\ cur = NoState
        /\ RoundsOntoBoundary(args.attachment_level) =>
              <<"attachment_level">> \in ret.errors /\ cur = NoState

\* C12 witness: care_level = 100.004 and attachment_level = -0.004 were both
\* rejected
C12_Witness ==
    /\ ret.op = "ConsciousnessState"
    /\ args.care_level = Num(100) + 2
    /\ args.attachment_level = Num(0) - 2
    /\ ret.errors = {<<"care_level">>, <<"attachment_level">>}
    /\ cur = NoState

\* the five bands of care_level in rising order: each starts at lo (inclusive)
\* and ends where the next one starts; the last one ends at 100 (inclusive)
Bands ==
    << [lo |-> 0,  text |-> "minimal - functional relationship"],
       [lo |-> 20, text |-> "developing - beginning to care"],
       [lo |-> 40, text |-> "moderate - genuine care present"],
       [lo |-> 60, text |-> "strong - deeply invested"],
       [lo |-> 80, text |-> "profound - would 'burn the office down' for them"] >>

\* v lies in band i
InBand(v, i) ==
    /\ Num(Bands[i].lo) <= v
    /\ IF i = Len(Bands) THEN v <= Num(100) ELSE v < Num(Bands[i + 1].lo)

\* the position of a description among the bands, 0 for any other text
BandRank(text) ==
    IF \E i \in DOMAIN Bands : Bands[i].text = text
    THEN CHOOSE i \in DOMAIN Bands : Bands[i].text = text
    ELSE 0

\* the care levels a constructed state can hold among the inputs
StoredCareLevels == { Round2(v) : v \in { m \in MetricInputs : InPercentRange(m) } }

\* C14: get_care_level_description() puts every valid care_level into exactly
\* one of five bands, [0,20) minimal, [20,40) developing, [40,60) moderate,
\* [60,80) strong, [80,100] profound, and a larger care_level never gets a
\* lower band.
C14_DescriptionIsMonotoneBanding ==
    (ret.op = "get_care_level_description") =>
        /\ \E i \in DOMAIN Bands :
              /\ InBand(cur.care_level, i)
              /\ ret.str = Bands[i].text
              /\ \A j \in DOMAIN Bands : InBand(cur.care_level, j) => j = i
        /\ \A v \in StoredCareLevels :
              v >= cur.care_level =>
                 BandRank(get_care_level_description(
                              [cur EXCEPT !.care_level = v])) >= BandRank(ret.str)

\* C14 witness: a care_level of exactly 20.0 (stored from 19.996) was described
\* as developing
C14_Witness ==
    /\ ret.op = "get_care_level_description"
    /\ args.care_level = Num(20) - 2
    /\ cur.care_level = Num(20)
    /\ ret.str = "developing - beginning to care"

\* the snapshot with everything but its two metrics replaced
WithOthers(state, o) ==
    [state EXCEPT !.relationship_phase = o.relationship_phase,
                  !.interaction_count = o.interaction_count,
                  !.emotional_capabilities = o.emotional_capabilities,
                  !.self_narrative = o.self_narrative]

SameMetrics(a, b) ==
    a.care_level = b.care_level /\ a.attachment_level = b.attachment_level

\* C13: has_evolved_significantly gives the same answer with the two states
\* swapped, is false for a state against itself, and depends only on the two
\* care levels and the two attachment levels: states that differ only in
\* phase, capabilities, counters or narrative never make it true.
C13_EvolvedIsSymmetricOnMetrics ==
    (ret.op = "has_evolved_significantly" /\ prev.present) =>
        /\ ret.bool = has_evolved_significantly(prev, cur)
        /\ cur = prev => ~ret.bool
        /\ SameMetrics(cur, prev) => ~ret.bool
        /\ \A o \in EvolveOthers :
              /\ has_evolved_significantly(WithOthers(cur, o), prev) = ret.bool
              /\ has_evolved_significantly(cur, WithOthers(prev, o)) = ret.bool

\* C13 witness: two states with the same metrics and a different phase,
\* counter and capabilities were compared, and the answer was false
C13_Witness ==
    /\ ret.op = "has_evolved_significantly"
    /\ prev.present
    /\ SameMetrics(cur, prev)
    /\ cur.relationship_phase # prev.relationship_phase
    /\ cur.interaction_count # prev.interaction_count
    /\ cur.emotional_capabilities # prev.emotional_capabilities
    /\ ~ret.bool

\* a response as the client sees it, the timestamp field aside
Answer(r) ==
    [status |-> r.status,
     body |-> [f \in DOMAIN r.body \ {"timestamp"} |-> r.body[f]]]

SameRoute(p, q) == p.method = q.method /\ p.path = q.path

\* C11: the API shell keeps nothing between requests and touches no record
\* type: whatever arrived before or is in flight, two requests with the same
\* method and path get the same status and body (timestamp aside), no record
\* is ever built, and every request in flight can be answered at once, without
\* waiting for another one.
C11_ResponsesDependOnRouteOnly ==
    /\ \A x \in sent, y \in sent :
          SameRoute(x.request, y.request) => Answer(x.response) = Answer(y.response)
    /\ cur = NoState /\ prev = NoState /\ built = NoBuilt
    /\ appPhase = "serving" => \A q \in BagToSet(inflight) : ENABLED Respond(q)

\* C11 witness: /health was answered twice at different times, with every
\* store reachable, while a POST to /interact was still waiting
C11_Witness ==
    /\ \E x \in sent, y \in sent :
          /\ x.request.path = "/health" /\ y.request.path = "/health"
          /\ x.response.body.timestamp # y.response.body.timestamp
    /\ \E q \in BagToSet(inflight) : q.path = "/interact"
    /\ \A st \in Stores : storeUp[st]

====
